---- MODULE Spec2Model ----
(***************************************************************************)
(* Virtual pipes of crates/wasi/src/preview2/pipe.rs.                      *)
(*                                                                         *)
(* The module models the stream endpoints of pipe.rs as state machines:    *)
(*   - the channel pipe (InputPipe / OutputPipe) over a bounded            *)
(*     tokio::sync::mpsc channel,                                          *)
(*   - WrappedRead over an asynchronous byte source,                       *)
(*   - WrappedWrite over an asynchronous byte sink,                        *)
(*   - MemoryOutputPipe, an output stream that collects bytes in memory.   *)
(* The variable `subject` says which of them a behaviour exercises; the    *)
(* endpoints of different subjects share nothing in the source.            *)
(*                                                                         *)
(* Bytes are numbered: the k-th byte handed to OutputPipe::write (or       *)
(* produced by the source of a WrappedRead) is the number k.  The code     *)
(* never inspects a byte, so loss, duplication and reordering all show as  *)
(* a sequence that is not 1, 2, 3, ...                                     *)
(***************************************************************************)
EXTENDS Integers, Sequences, FiniteSets, TLC

\* ---- bounds of the model -------------------------------------------------
MaxBound == 2
MaxBytes == 4
MaxBuf == 2
MaxDest == 2

\* ---- program constant: scratch space WrappedRead::ready reads into -------
ReadChunk == 1024

VARIABLES
    subject,        \* "pipe" | "wread" | "wwrite" | "mem"
    ev,             \* the step that led to this state (call, argument, result)
    \* tokio::sync::mpsc::channel(bound)
    bound,          \* the queue bound given to pipe()
    queue,          \* chunks sent and not yet received, oldest first
    permits,        \* free capacity of the channel's semaphore
    rx_closed,      \* the Receiver has been dropped
    \* InputPipe
    in_state, in_buffer,
    in_pc,          \* "idle" | "recv": suspended in ready() on channel.recv()
    in_dropped,
    in_returned,    \* bytes returned by InputPipe::read so far
    in_closed_reads, \* InputPipe::read calls that returned Closed (0, 1, 2+)
    in_prev,        \* outcome of the consumer's last completed call
    \* OutputPipe
    out_buffer, out_channel,
    out_pc,         \* "idle" | "send" | "reserve": suspension points of ready()
    out_bytes,      \* the buffer taken by flush(), owned by the suspended send
    out_dropped,
    out_lost,       \* bytes that were in the pending buffer when it was dropped
    out_failed,     \* some write/ready has failed because the consumer is gone
    out_abandoned,  \* some in-flight ready() has been dropped
    out_prev,       \* outcome of the producer's last completed call
    nWritten,       \* bytes accepted by successful OutputPipe::write calls
    \* WrappedRead and its source
    wr_state, wr_buffer,
    wr_pc,          \* "idle" | "read_buf": suspended in ready() on read_buf()
    wr_bytes,       \* the buffer taken by ready(), owned by its future
    wr_returned,    \* bytes returned by WrappedRead::read so far
    wr_closed_reads, \* WrappedRead::read calls that returned Closed (0, 1, 2+)
    wr_errored,     \* the source has returned an error to read or ready
    wr_abandoned,   \* some in-flight ready() has been dropped
    src_made,       \* bytes the source has produced so far
    src_taken,      \* bytes taken from the source so far
    src_eof,        \* the source is at its end
    src_zero,       \* a read of the source has completed with zero bytes
    \* WrappedWrite and its sink
    ww_buffer,
    ww_pc,          \* "idle" | "write_all": suspended in ready() on write_all()
    ww_bytes,       \* the buffer taken by ready(), owned by its future
    ww_accepted,    \* bytes accepted by successful WrappedWrite::write calls
    ww_sunk,        \* bytes the sink has accepted so far
    ww_errored,     \* the sink has returned an error to write or ready
    ww_abandoned,   \* some in-flight ready() has been dropped
    \* MemoryOutputPipe
    mem_buffer,
    mem_written     \* bytes handed to MemoryOutputPipe::write so far

chanVars == <<bound, queue, permits, rx_closed>>
inVars == <<in_state, in_buffer, in_pc, in_dropped, in_returned,
            in_closed_reads, in_prev>>
outVars == <<out_buffer, out_channel, out_pc, out_bytes, out_dropped,
             out_lost, out_failed, out_abandoned, out_prev, nWritten>>
pipeVars == <<chanVars, inVars, outVars>>
srcVars == <<src_made, src_taken, src_eof, src_zero>>
wrVars == <<wr_state, wr_buffer, wr_pc, wr_bytes, wr_returned,
            wr_closed_reads, wr_errored, wr_abandoned, srcVars>>
wwVars == <<ww_buffer, ww_pc, ww_bytes, ww_accepted, ww_sunk, ww_errored,
            ww_abandoned>>
memVars == <<mem_buffer, mem_written>>
adapterVars == <<wrVars, wwVars, memVars>>
vars == <<subject, ev, pipeVars, adapterVars>>

\* ---- sequences of bytes --------------------------------------------------
Min(a, b) == IF a < b THEN a ELSE b

Take(s, k) == SubSeq(s, 1, k)

Drop(s, k) == SubSeq(s, k + 1, Len(s))

\* the n bytes that follow the first `from` bytes of the stream
Bytes(from, n) == [i \in 1..n |-> from + i]

RECURSIVE Concat(_)
Concat(chunks) ==
    IF chunks = <<>> THEN <<>> ELSE Head(chunks) \o Concat(Tail(chunks))

Ev(op, arg, res, cnt, st, poll) ==
    [op |-> op, arg |-> arg, res |-> res, cnt |-> cnt, st |-> st, poll |-> poll]

\* ---- pipe(bound) ---------------------------------------------------------
\* (variant: the channel has one permit more than the bound)
InitChannel_extra ==
    /\ queue = <<>>
    /\ permits = bound + 1
    /\ rx_closed = FALSE

\* mpsc::channel(size): an empty queue with size permits
InitChannel ==
    /\ queue = <<>>
    /\ permits = bound
    /\ rx_closed = FALSE

InputPipe_new ==
    /\ in_state = "Open"
    /\ in_buffer = <<>>
    /\ in_pc = "idle"
    /\ in_dropped = FALSE
    /\ in_returned = <<>>
    /\ in_closed_reads = 0
    /\ in_prev = "none"

OutputPipe_new ==
    /\ out_buffer = <<>>
    /\ out_channel = "Channel"
    /\ out_pc = "idle"
    /\ out_bytes = <<>>
    /\ out_dropped = FALSE
    /\ out_lost = 0
    /\ out_failed = FALSE
    /\ out_abandoned = FALSE
    /\ out_prev = "none"
    /\ nWritten = 0

pipe ==
    /\ InitChannel
    /\ InputPipe_new
    /\ OutputPipe_new

\* Every Sender (and OwnedPermit, which holds one) is gone: the OutputPipe
\* keeps it in `channel`, a suspended ready() keeps it in its future.
TxClosed == out_pc = "idle" /\ out_channel = "None"

\* ---- the receiving side of the channel -----------------------------------
\* (variant: a received chunk does not free its capacity)
Receiver_recv_permits_kept(p) == p

\* the permits of the channel after try_recv or recv has taken a chunk
Receiver_recv_permits(p) == p + 1

\* ---- InputPipe::read -----------------------------------------------------
\* (variant: the stash starts one byte late)
InputPipe_stash_late(msg, room) == Drop(msg, room + 1)

\* the part of a received chunk that does not fit the destination
InputPipe_stash(msg, room) == Drop(msg, room)

\* the state stored, and returned, when try_recv reports Disconnected
InputPipe_disconnected(state) == "Closed"

\* (variant: reports Open without consulting the stored state)
InputPipe_read_buffered_open(state) == "Open"

\* the state returned when the destination was filled from the buffer alone
InputPipe_read_buffered(state) == state

InputPipe_read(n) ==
    /\ subject = "pipe"
    /\ in_pc = "idle" /\ ~in_dropped
    /\ LET read_from_buffer == Min(Len(in_buffer), n)
           head == Take(in_buffer, read_from_buffer)
           rest == Drop(in_buffer, read_from_buffer)
           room == n - read_from_buffer
       IN  IF read_from_buffer < n
           THEN IF queue # <<>>
                THEN LET msg == Head(queue)
                         got == IF Len(msg) < room THEN msg ELSE Take(msg, room)
                     IN  /\ queue' = Tail(queue)
                         /\ permits' = Receiver_recv_permits(permits)
                         /\ in_buffer' = IF Len(msg) < room
                                         THEN rest
                                         ELSE rest \o InputPipe_stash(msg, room)
                         /\ in_returned' = in_returned \o head \o got
                         /\ in_state' = in_state
                         /\ ev' = Ev("InputPipe.read", n, "ok",
                                     read_from_buffer + Len(got), in_state, "Ok")
                ELSE IF ~TxClosed
                THEN /\ UNCHANGED <<queue, permits, in_state>>
                     /\ in_buffer' = rest
                     /\ in_returned' = in_returned \o head
                     /\ ev' = Ev("InputPipe.read", n, "ok",
                                 read_from_buffer, in_state, "Empty")
                ELSE /\ UNCHANGED <<queue, permits>>
                     /\ in_buffer' = rest
                     /\ in_returned' = in_returned \o head
                     /\ in_state' = InputPipe_disconnected(in_state)
                     /\ ev' = Ev("InputPipe.read", n, "ok",
                                 read_from_buffer,
                                 InputPipe_disconnected(in_state), "Disconnected")
           ELSE /\ UNCHANGED <<queue, permits, in_state>>
                /\ in_buffer' = rest
                /\ in_returned' = in_returned \o head
                /\ ev' = Ev("InputPipe.read", n, "ok", read_from_buffer,
                            InputPipe_read_buffered(in_state), "-")
    /\ in_closed_reads' = IF ev'.st = "Closed"
                          THEN Min(in_closed_reads + 1, 2)
                          ELSE in_closed_reads
    /\ in_prev' = IF n > 0 /\ ev'.cnt = 0 THEN "read_zero" ELSE "read"
    /\ UNCHANGED <<subject, adapterVars,
                   bound, rx_closed, in_pc, in_dropped, outVars>>

\* ---- InputPipe::ready ----------------------------------------------------
InputPipe_ready_begin ==
    /\ subject = "pipe"
    /\ in_pc = "idle" /\ ~in_dropped
    /\ in_pc' = "recv"
    /\ ev' = Ev("InputPipe.ready", 0, "suspended", 0, "-", "-")
    /\ UNCHANGED <<subject, adapterVars,
                   chanVars, in_state, in_buffer, in_dropped,
                   in_returned, in_closed_reads, in_prev, outVars>>

InputPipe_ready ==
    /\ subject = "pipe"
    /\ in_pc = "recv"
    /\ IF queue # <<>>
       THEN /\ queue' = Tail(queue)
            /\ permits' = Receiver_recv_permits(permits)
            /\ in_buffer' = in_buffer \o Head(queue)
            /\ in_state' = in_state
            /\ ev' = Ev("InputPipe.ready", 0, "ok", 0, in_state, "Some")
       ELSE /\ TxClosed
            /\ in_state' = "Closed"
            /\ ev' = Ev("InputPipe.ready", 0, "ok", 0, "Closed", "None")
            /\ UNCHANGED <<queue, permits, in_buffer>>
    /\ in_pc' = "idle"
    /\ in_prev' = "ready"
    /\ UNCHANGED <<subject, adapterVars,
                   bound, rx_closed, in_dropped, in_returned,
                   in_closed_reads, outVars>>

\* the future of an in-flight InputPipe::ready is dropped: recv() holds
\* nothing of the endpoint
InputPipe_ready_abandon ==
    /\ subject = "pipe"
    /\ in_pc = "recv"
    /\ in_pc' = "idle"
    /\ in_prev' = "abandon"
    /\ ev' = Ev("InputPipe.ready", 0, "abandoned", 0, "-", "-")
    /\ UNCHANGED <<subject, adapterVars,
                   chanVars, in_state, in_buffer, in_dropped,
                   in_returned, in_closed_reads, outVars>>

\* the InputPipe is dropped: the Receiver closes the channel and drains it
InputPipe_drop ==
    /\ subject = "pipe"
    /\ in_pc = "idle" /\ ~in_dropped
    /\ in_dropped' = TRUE
    /\ rx_closed' = TRUE
    /\ queue' = <<>>
    /\ permits' = permits + Len(queue)
    /\ ev' = Ev("InputPipe.drop", 0, "-", 0, "-", "-")
    /\ UNCHANGED <<subject, adapterVars,
                   bound, in_state, in_buffer, in_pc, in_returned,
                   in_closed_reads, in_prev, outVars>>

\* ---- OutputPipe ----------------------------------------------------------
\* (variant: a missing sender state is taken for a held reservation)
take_channel_or_permit(channel) ==
    IF channel = "None" THEN "Writable" ELSE channel

\* self.channel.take(): the sender state, "None" making the expect panic
take_channel(channel) == channel

\* (variant: the rejected bytes are not kept)
OutputPipe_write_full_dropped(b) == <<>>

\* what OutputPipe::write keeps in its buffer when try_send reports Full(b)
OutputPipe_write_full(b) == b

\* (variant: the reservation is released without sending)
OutputPipe_write_permit_unsent(bytes) == <<>>

\* what OutputPipe::write puts in the queue with a held reservation
OutputPipe_write_permit(bytes) == <<bytes>>

OutputPipe_write(n) ==
    /\ subject = "pipe"
    /\ out_pc = "idle" /\ ~out_dropped
    /\ nWritten + n <= MaxBytes
    /\ LET buf == Bytes(nWritten, n)
           bytes == out_buffer \o buf
           s == take_channel(out_channel)
       IN  \/ /\ s = "None"
              /\ out_buffer' = <<>>
              /\ out_channel' = "None"
              /\ out_prev' = "write_err"
              /\ ev' = Ev("OutputPipe.write", n, "panic", 0, "-", "-")
              /\ UNCHANGED <<queue, permits, nWritten, out_failed>>
           \/ /\ s = "Writable"
              /\ queue' = queue \o OutputPipe_write_permit(bytes)
              /\ out_buffer' = <<>>
              /\ out_channel' = "Channel"
              /\ nWritten' = nWritten + n
              /\ out_prev' = "write_ok"
              /\ ev' = Ev("OutputPipe.write", n, "ok", n, "-", "permit")
              /\ UNCHANGED <<permits, out_failed>>
           \/ /\ s = "Channel"
              /\ IF rx_closed
                 THEN /\ out_buffer' = <<>>
                      /\ out_channel' = "None"
                      /\ out_failed' = TRUE
                      /\ out_prev' = "write_err"
                      /\ ev' = Ev("OutputPipe.write", n, "err", 0, "-", "Closed")
                      /\ UNCHANGED <<queue, permits, nWritten>>
                 ELSE IF permits = 0
                 THEN /\ out_buffer' = OutputPipe_write_full(bytes)
                      /\ out_channel' = "Channel"
                      /\ nWritten' = nWritten + n
                      /\ out_prev' = "write_ok"
                      /\ ev' = Ev("OutputPipe.write", n, "ok", n, "-", "Full")
                      /\ UNCHANGED <<queue, permits, out_failed>>
                 ELSE /\ queue' = Append(queue, bytes)
                      /\ permits' = permits - 1
                      /\ out_buffer' = <<>>
                      /\ out_channel' = "Channel"
                      /\ nWritten' = nWritten + n
                      /\ out_prev' = "write_ok"
                      /\ ev' = Ev("OutputPipe.write", n, "ok", n, "-", "Ok")
                      /\ UNCHANGED out_failed
    /\ UNCHANGED <<subject, adapterVars,
                   bound, rx_closed, inVars, out_pc, out_bytes,
                   out_dropped, out_lost, out_abandoned>>

\* (variant: flush returns at once whatever the buffer holds)
flush_skipped_always(buffer) == TRUE

\* flush returns at once when the pending buffer is empty
flush_skipped(buffer) == buffer = <<>>

\* OutputPipe::ready from the call to its first suspension point:
\* flush() up to the send, then the channel.take() of ready().
OutputPipe_ready_begin ==
    /\ subject = "pipe"
    /\ out_pc = "idle" /\ ~out_dropped
    /\ LET s == take_channel(out_channel)
       IN  IF ~flush_skipped(out_buffer)
           THEN \* flush: the buffer is taken, then blocking_send
                \/ /\ s = "None"
                   /\ out_buffer' = <<>>
                   /\ out_prev' = "ready_err"
                   /\ ev' = Ev("OutputPipe.ready", 0, "panic", 0, "-", "-")
                   /\ UNCHANGED <<queue, out_channel, out_pc, out_bytes>>
                \/ /\ s = "Writable"
                   /\ queue' = Append(queue, out_buffer)
                   /\ out_buffer' = <<>>
                   /\ out_channel' = "None"
                   /\ out_pc' = "reserve"
                   /\ ev' = Ev("OutputPipe.ready", 0, "suspended", 0, "-", "permit")
                   /\ UNCHANGED <<out_bytes, out_prev>>
                \/ /\ s = "Channel"
                   /\ out_bytes' = out_buffer
                   /\ out_buffer' = <<>>
                   /\ out_channel' = "None"
                   /\ out_pc' = "send"
                   /\ ev' = Ev("OutputPipe.ready", 0, "suspended", 0, "-", "send")
                   /\ UNCHANGED <<queue, out_prev>>
           ELSE \/ /\ out_channel = "None"
                   /\ out_prev' = "ready_err"
                   /\ ev' = Ev("OutputPipe.ready", 0, "panic", 0, "-", "-")
                   /\ UNCHANGED <<queue, out_buffer, out_channel, out_pc, out_bytes>>
                \/ /\ out_channel = "Writable"
                   /\ out_prev' = "ready_ok"
                   /\ ev' = Ev("OutputPipe.ready", 0, "ok", 0, "-", "held")
                   /\ UNCHANGED <<queue, out_buffer, out_channel, out_pc, out_bytes>>
                \/ /\ out_channel = "Channel"
                   /\ out_channel' = "None"
                   /\ out_pc' = "reserve"
                   /\ ev' = Ev("OutputPipe.ready", 0, "suspended", 0, "-", "reserve")
                   /\ UNCHANGED <<queue, out_buffer, out_bytes, out_prev>>
    /\ UNCHANGED <<subject, adapterVars,
                   bound, permits, rx_closed, inVars, out_dropped,
                   out_lost, out_failed, out_abandoned, nWritten>>

\* blocking_send: s.send(buf).await resolves, then ready() goes on to
\* reserve_owned()
OutputPipe_ready_send ==
    /\ subject = "pipe"
    /\ out_pc = "send"
    /\ IF rx_closed
       THEN \* SendError: flush's expect panics, the sender is dropped
            /\ out_pc' = "idle"
            /\ out_failed' = TRUE
            /\ out_prev' = "ready_err"
            /\ ev' = Ev("OutputPipe.ready", 0, "panic", 0, "-", "Closed")
            /\ UNCHANGED <<queue, permits>>
       ELSE /\ permits > 0
            /\ permits' = permits - 1
            /\ queue' = Append(queue, out_bytes)
            /\ out_pc' = "reserve"
            /\ ev' = Ev("OutputPipe.ready", 0, "suspended", 0, "-", "sent")
            /\ UNCHANGED <<out_failed, out_prev>>
    /\ out_bytes' = <<>>
    /\ UNCHANGED <<subject, adapterVars,
                   bound, rx_closed, inVars, out_buffer, out_channel,
                   out_dropped, out_lost, out_abandoned, nWritten>>

\* s.reserve_owned().await resolves
OutputPipe_ready_reserve ==
    /\ subject = "pipe"
    /\ out_pc = "reserve"
    /\ IF rx_closed
       THEN /\ out_channel' = "None"
            /\ out_failed' = TRUE
            /\ out_prev' = "ready_err"
            /\ ev' = Ev("OutputPipe.ready", 0, "err", 0, "-", "Closed")
            /\ UNCHANGED permits
       ELSE /\ permits > 0
            /\ permits' = permits - 1
            /\ out_channel' = "Writable"
            /\ out_prev' = "ready_ok"
            /\ ev' = Ev("OutputPipe.ready", 0, "ok", 0, "-", "reserved")
            /\ UNCHANGED out_failed
    /\ out_pc' = "idle"
    /\ UNCHANGED <<subject, adapterVars,
                   bound, queue, rx_closed, inVars, out_buffer,
                   out_bytes, out_dropped, out_lost, out_abandoned, nWritten>>

\* the future of an in-flight OutputPipe::ready is dropped at its await:
\* the taken buffer and the taken sender are locals of the future
OutputPipe_ready_abandon ==
    /\ subject = "pipe"
    /\ out_pc \in {"send", "reserve"}
    /\ out_pc' = "idle"
    /\ out_bytes' = <<>>
    /\ out_abandoned' = TRUE
    /\ out_prev' = "abandon"
    /\ ev' = Ev("OutputPipe.ready", 0, "abandoned", Len(out_bytes), "-", out_pc)
    /\ UNCHANGED <<subject, adapterVars,
                   chanVars, inVars, out_buffer, out_channel,
                   out_dropped, out_lost, out_failed, nWritten>>

\* the OutputPipe is dropped: its buffer goes with it, a held permit is
\* returned to the channel, the Sender is gone
OutputPipe_drop ==
    /\ subject = "pipe"
    /\ out_pc = "idle" /\ ~out_dropped
    /\ out_dropped' = TRUE
    /\ out_lost' = Len(out_buffer)
    /\ out_buffer' = <<>>
    /\ out_channel' = "None"
    /\ permits' = IF out_channel = "Writable" THEN permits + 1 ELSE permits
    /\ ev' = Ev("OutputPipe.drop", 0, "-", 0, "-", "-")
    /\ UNCHANGED <<subject, adapterVars,
                   bound, queue, rx_closed, inVars, out_pc, out_bytes,
                   out_failed, out_abandoned, out_prev, nWritten>>

\* ---- the source of a WrappedRead -----------------------------------------
\* An AsyncRead: bytes arrive over time and the source ends at some point.
\* A poll finds bytes (and takes some or all that fit), or the end (a
\* completed read of 0 bytes), or neither (Pending); it may also fail.
SrcAvail == src_made - src_taken

Source_produce(k) ==
    /\ subject = "wread"
    /\ ~src_eof
    /\ src_made + k <= MaxBytes
    /\ src_made' = src_made + k
    /\ ev' = Ev("source.produce", k, "-", 0, "-", "-")
    /\ UNCHANGED <<subject, pipeVars, memVars, wwVars, wr_state, wr_buffer, wr_pc,
                   wr_bytes, wr_returned, wr_closed_reads, wr_errored,
                   wr_abandoned, src_taken, src_eof, src_zero>>

Source_close ==
    /\ subject = "wread"
    /\ ~src_eof
    /\ src_eof' = TRUE
    /\ ev' = Ev("source.close", 0, "-", 0, "-", "-")
    /\ UNCHANGED <<subject, pipeVars, memVars, wwVars, wr_state, wr_buffer, wr_pc,
                   wr_bytes, wr_returned, wr_closed_reads, wr_errored,
                   wr_abandoned, src_made, src_taken, src_zero>>

\* ---- WrappedRead ---------------------------------------------------------
WrappedRead_new ==
    /\ wr_state = "Open"
    /\ wr_buffer = <<>>
    /\ wr_pc = "idle"
    /\ wr_bytes = <<>>
    /\ wr_returned = <<>>
    /\ wr_closed_reads = 0
    /\ wr_errored = FALSE
    /\ wr_abandoned = FALSE
    /\ src_made = 0
    /\ src_taken = 0
    /\ src_eof = FALSE
    /\ src_zero = FALSE

\* (variant: the copied bytes are not removed)
WrappedRead_drain_none(buffer, l) == buffer

\* self.buffer.drain(..l)
WrappedRead_drain(buffer, l) == Drop(buffer, l)

\* the state after the single poll left bytes_read bytes in the ReadBuf
WrappedRead_polled(state, bytes_read) ==
    IF bytes_read = 0 THEN "Closed" ELSE state

WrappedRead_read(n) ==
    /\ subject = "wread"
    /\ wr_pc = "idle"
    /\ LET l == Min(n, Len(wr_buffer))
           head == Take(wr_buffer, l)
           rest == WrappedRead_drain(wr_buffer, l)
           room == n - l
       IN  /\ wr_buffer' = rest
           /\ IF rest # <<>>
              THEN /\ wr_returned' = wr_returned \o head
                   /\ ev' = Ev("WrappedRead.read", n, "ok", l, "Open", "-")
                   /\ UNCHANGED <<wr_state, wr_errored, src_taken, src_zero>>
              ELSE IF wr_state = "Closed"
              THEN /\ wr_returned' = wr_returned \o head
                   /\ ev' = Ev("WrappedRead.read", n, "ok", l, "Closed", "-")
                   /\ UNCHANGED <<wr_state, wr_errored, src_taken, src_zero>>
              ELSE IF room > 0
              THEN \/ \* Poll::Ready(Err): `result?` returns the error
                      /\ wr_errored' = TRUE
                      /\ ev' = Ev("WrappedRead.read", n, "err", 0, "-", "Err")
                      /\ UNCHANGED <<wr_state, wr_returned, src_taken, src_zero>>
                   \/ \* Poll::Ready(Ok): k bytes, the end when none is left
                      /\ SrcAvail > 0 \/ src_eof
                      /\ \E k \in 0..Min(room, SrcAvail) :
                            /\ (k = 0) = (SrcAvail = 0)
                            /\ src_taken' = src_taken + k
                            /\ src_zero' = (src_zero \/ k = 0)
                            /\ wr_state' = WrappedRead_polled(wr_state, k)
                            /\ wr_returned' =
                                   wr_returned \o head \o Bytes(src_taken, k)
                            /\ ev' = Ev("WrappedRead.read", n, "ok", l + k,
                                        wr_state', "Ready")
                      /\ UNCHANGED wr_errored
                   \/ \* Poll::Pending: nothing was read
                      /\ SrcAvail = 0 /\ ~src_eof
                      /\ wr_state' = WrappedRead_polled(wr_state, 0)
                      /\ wr_returned' = wr_returned \o head
                      /\ ev' = Ev("WrappedRead.read", n, "ok", l,
                                  wr_state', "Pending")
                      /\ UNCHANGED <<wr_errored, src_taken, src_zero>>
              ELSE /\ wr_returned' = wr_returned \o head
                   /\ ev' = Ev("WrappedRead.read", n, "ok", l, wr_state, "-")
                   /\ UNCHANGED <<wr_state, wr_errored, src_taken, src_zero>>
    /\ wr_closed_reads' = IF ev'.st = "Closed"
                          THEN Min(wr_closed_reads + 1, 2)
                          ELSE wr_closed_reads
    /\ UNCHANGED <<subject, pipeVars, memVars, wwVars, wr_pc, wr_bytes, wr_abandoned,
                   src_made, src_eof>>

\* WrappedRead::ready from the call to its suspension point
WrappedRead_ready_begin ==
    /\ subject = "wread"
    /\ wr_pc = "idle"
    /\ IF wr_state = "Closed"
       THEN /\ ev' = Ev("WrappedRead.ready", 0, "ok", 0, wr_state, "-")
            /\ UNCHANGED <<wr_buffer, wr_pc, wr_bytes>>
       ELSE /\ wr_bytes' = wr_buffer
            /\ wr_buffer' = <<>>
            /\ wr_pc' = "read_buf"
            /\ ev' = Ev("WrappedRead.ready", 0, "suspended", 0, "-", "-")
    /\ UNCHANGED <<subject, pipeVars, memVars, wwVars, wr_state, wr_returned,
                   wr_closed_reads, wr_errored, wr_abandoned, srcVars>>

\* read_buf().await resolves with l bytes
WrappedRead_ready ==
    /\ subject = "wread"
    /\ wr_pc = "read_buf"
    /\ SrcAvail > 0 \/ src_eof
    /\ \E l \in 0..Min(ReadChunk, SrcAvail) :
          /\ (l = 0) = (SrcAvail = 0)
          /\ src_taken' = src_taken + l
          /\ src_zero' = (src_zero \/ l = 0)
          /\ wr_state' = IF l = 0 THEN "Closed" ELSE wr_state
          /\ wr_buffer' = wr_bytes \o Bytes(src_taken, l)
          /\ ev' = Ev("WrappedRead.ready", 0, "ok", l, wr_state', "Ready")
    /\ wr_bytes' = <<>>
    /\ wr_pc' = "idle"
    /\ UNCHANGED <<subject, pipeVars, memVars, wwVars, wr_returned, wr_closed_reads,
                   wr_errored, wr_abandoned, src_made, src_eof>>

\* read_buf().await resolves with an error: `?` returns it, the taken
\* buffer is a local of the call
WrappedRead_ready_error ==
    /\ subject = "wread"
    /\ wr_pc = "read_buf"
    /\ wr_bytes' = <<>>
    /\ wr_pc' = "idle"
    /\ wr_errored' = TRUE
    /\ ev' = Ev("WrappedRead.ready", 0, "err", Len(wr_bytes), "-", "Err")
    /\ UNCHANGED <<subject, pipeVars, memVars, wwVars, wr_state, wr_buffer,
                   wr_returned, wr_closed_reads, wr_abandoned, srcVars>>

\* the future of an in-flight WrappedRead::ready is dropped at its await
WrappedRead_ready_abandon ==
    /\ subject = "wread"
    /\ wr_pc = "read_buf"
    /\ wr_bytes' = <<>>
    /\ wr_pc' = "idle"
    /\ wr_abandoned' = TRUE
    /\ ev' = Ev("WrappedRead.ready", 0, "abandoned", Len(wr_bytes), "-", "-")
    /\ UNCHANGED <<subject, pipeVars, memVars, wwVars, wr_state, wr_buffer,
                   wr_returned, wr_closed_reads, wr_errored, srcVars>>

\* ---- WrappedWrite --------------------------------------------------------
\* The sink is an AsyncWrite: a poll accepts a non-empty prefix of what it is
\* given (all of it when that is empty), or is Pending, or fails.
WrappedWrite_new ==
    /\ ww_buffer = <<>>
    /\ ww_pc = "idle"
    /\ ww_bytes = <<>>
    /\ ww_accepted = 0
    /\ ww_sunk = <<>>
    /\ ww_errored = FALSE
    /\ ww_abandoned = FALSE

\* (variant: the bytes the sink took stay in the buffer)
WrappedWrite_drain_none(bytes, written) == bytes

\* bytes.drain(..written): what is left of the buffer after a write
WrappedWrite_drain(bytes, written) == Drop(bytes, written)

WrappedWrite_write(n) ==
    /\ subject = "wwrite"
    /\ ww_pc = "idle"
    /\ ww_accepted + n <= MaxBytes
    /\ LET buf == Bytes(ww_accepted, n)
           bytes == ww_buffer \o buf
       IN  \/ \* Poll::Pending: buffer all of it
              /\ ww_buffer' = bytes
              /\ ww_accepted' = ww_accepted + n
              /\ ev' = Ev("WrappedWrite.write", n, "ok", n, "-", "Pending")
              /\ UNCHANGED <<ww_sunk, ww_errored>>
           \/ \* Poll::Ready(Ok(written))
              \E written \in 0..Len(bytes) :
                 /\ (written = 0) = (bytes = <<>>)
                 /\ ww_sunk' = ww_sunk \o Take(bytes, written)
                 /\ ww_buffer' = WrappedWrite_drain(bytes, written)
                 /\ ww_accepted' = ww_accepted + n
                 /\ ev' = Ev("WrappedWrite.write", n, "ok", n, "-", "Ready")
                 /\ UNCHANGED ww_errored
           \/ \* Poll::Ready(Err): `written?` returns, the taken buffer is a local
              /\ ww_buffer' = <<>>
              /\ ww_errored' = TRUE
              /\ ev' = Ev("WrappedWrite.write", n, "err", Len(ww_buffer), "-", "Err")
              /\ UNCHANGED <<ww_sunk, ww_accepted>>
    /\ UNCHANGED <<subject, pipeVars, memVars, wrVars, ww_pc, ww_bytes, ww_abandoned>>

\* WrappedWrite::ready from the call to its suspension point
WrappedWrite_ready_begin ==
    /\ subject = "wwrite"
    /\ ww_pc = "idle"
    /\ IF ww_buffer = <<>>
       THEN /\ ev' = Ev("WrappedWrite.ready", 0, "ok", 0, "-", "-")
            /\ UNCHANGED <<ww_buffer, ww_pc, ww_bytes>>
       ELSE /\ ww_bytes' = ww_buffer
            /\ ww_buffer' = <<>>
            /\ ww_pc' = "write_all"
            /\ ev' = Ev("WrappedWrite.ready", 0, "suspended", 0, "-", "-")
    /\ UNCHANGED <<subject, pipeVars, memVars, wrVars, ww_accepted, ww_sunk,
                   ww_errored, ww_abandoned>>

\* write_all().await: the sink accepts a further prefix; the call returns
\* when nothing is left
WrappedWrite_ready ==
    /\ subject = "wwrite"
    /\ ww_pc = "write_all"
    /\ \E written \in 1..Len(ww_bytes) :
          /\ ww_sunk' = ww_sunk \o Take(ww_bytes, written)
          /\ ww_bytes' = Drop(ww_bytes, written)
          /\ IF written = Len(ww_bytes)
             THEN /\ ww_pc' = "idle"
                  /\ ev' = Ev("WrappedWrite.ready", 0, "ok", written, "-", "Ready")
             ELSE /\ ww_pc' = "write_all"
                  /\ ev' = Ev("WrappedWrite.ready", 0, "suspended", written,
                              "-", "Ready")
    /\ UNCHANGED <<subject, pipeVars, memVars, wrVars, ww_buffer, ww_accepted,
                   ww_errored, ww_abandoned>>

WrappedWrite_ready_error ==
    /\ subject = "wwrite"
    /\ ww_pc = "write_all"
    /\ ww_bytes' = <<>>
    /\ ww_pc' = "idle"
    /\ ww_errored' = TRUE
    /\ ev' = Ev("WrappedWrite.ready", 0, "err", Len(ww_bytes), "-", "Err")
    /\ UNCHANGED <<subject, pipeVars, memVars, wrVars, ww_buffer, ww_accepted,
                   ww_sunk, ww_abandoned>>

\* the future of an in-flight WrappedWrite::ready is dropped at its await
WrappedWrite_ready_abandon ==
    /\ subject = "wwrite"
    /\ ww_pc = "write_all"
    /\ ww_bytes' = <<>>
    /\ ww_pc' = "idle"
    /\ ww_abandoned' = TRUE
    /\ ev' = Ev("WrappedWrite.ready", 0, "abandoned", Len(ww_bytes), "-", "-")
    /\ UNCHANGED <<subject, pipeVars, memVars, wrVars, ww_buffer, ww_accepted,
                   ww_sunk, ww_errored>>

\* ---- MemoryOutputPipe -----------------------------------------------------
MemoryOutputPipe_new ==
    /\ mem_buffer = <<>>
    /\ mem_written = 0

\* (variant: the argument is put in front of the content)
MemoryOutputPipe_extend_front(buffer, buf) == buf \o buffer

\* self.buffer.extend(buf)
MemoryOutputPipe_extend(buffer, buf) == buffer \o buf

MemoryOutputPipe_write(n) ==
    /\ subject = "mem"
    /\ mem_written + n <= MaxBytes
    /\ mem_buffer' = MemoryOutputPipe_extend(mem_buffer, Bytes(mem_written, n))
    /\ mem_written' = mem_written + n
    /\ ev' = Ev("MemoryOutputPipe.write", n, "ok", n, "-", "-")
    /\ UNCHANGED <<subject, pipeVars, wrVars, wwVars>>

\* an async fn without an await: it resolves at its first poll
MemoryOutputPipe_ready ==
    /\ subject = "mem"
    /\ ev' = Ev("MemoryOutputPipe.ready", 0, "ok", 0, "-", "Ready")
    /\ UNCHANGED <<subject, pipeVars, wrVars, wwVars, memVars>>

\* ---- specification -------------------------------------------------------
Subjects == {"pipe", "wread", "wwrite", "mem"}

Init ==
    /\ subject \in Subjects
    /\ ev = Ev("new", 0, "-", 0, "-", "-")
    /\ bound \in (IF subject = "pipe" THEN 1..MaxBound ELSE {1})
    /\ pipe
    /\ WrappedRead_new
    /\ WrappedWrite_new
    /\ MemoryOutputPipe_new

Next ==
    \/ \E n \in 0..MaxBuf : OutputPipe_write(n)
    \/ OutputPipe_ready_begin
    \/ OutputPipe_ready_send
    \/ OutputPipe_ready_reserve
    \/ OutputPipe_ready_abandon
    \/ OutputPipe_drop
    \/ \E n \in 0..MaxDest : InputPipe_read(n)
    \/ InputPipe_ready_begin
    \/ InputPipe_ready
    \/ InputPipe_ready_abandon
    \/ InputPipe_drop
    \/ \E k \in 1..MaxBuf : Source_produce(k)
    \/ Source_close
    \/ \E n \in 0..MaxDest : WrappedRead_read(n)
    \/ WrappedRead_ready_begin
    \/ WrappedRead_ready
    \/ WrappedRead_ready_error
    \/ WrappedRead_ready_abandon
    \/ \E n \in 0..MaxBuf : WrappedWrite_write(n)
    \/ WrappedWrite_ready_begin
    \/ WrappedWrite_ready
    \/ WrappedWrite_ready_error
    \/ WrappedWrite_ready_abandon
    \/ \E n \in 0..MaxBuf : MemoryOutputPipe_write(n)
    \/ MemoryOutputPipe_ready

Spec == Init /\ [][Next]_vars

\* ---- the channel pipe under fair scheduling ------------------------------
\* Both endpoints keep being driven: the producer's calls are carried to
\* completion, the consumer reads into a non-empty destination and waits in
\* ready() only after a read that reported no bytes.  The InputPipe is kept
\* alive and no in-flight ready() is dropped; the OutputPipe may be dropped.
InputPipe_ready_after_empty_read ==
    /\ in_prev = "read_zero"
    /\ InputPipe_ready_begin

LiveNext ==
    \/ \E n \in 0..MaxBuf : OutputPipe_write(n)
    \/ OutputPipe_ready_begin
    \/ OutputPipe_ready_send
    \/ OutputPipe_ready_reserve
    \/ OutputPipe_drop
    \/ \E n \in 1..MaxDest : InputPipe_read(n)
    \/ InputPipe_ready_after_empty_read
    \/ InputPipe_ready

LiveInit ==
    /\ Init
    /\ subject = "pipe"

LiveSpec ==
    /\ LiveInit
    /\ [][LiveNext]_vars
    /\ WF_vars(OutputPipe_ready_begin)
    /\ WF_vars(OutputPipe_ready_send)
    /\ WF_vars(OutputPipe_ready_reserve)
    /\ WF_vars(\E n \in 1..MaxDest : InputPipe_read(n))
    /\ WF_vars(InputPipe_ready_after_empty_read)
    /\ WF_vars(InputPipe_ready)

\* ---- the channel pipe under fair scheduling, the consumer may go away -----
\* As LiveSpec, and the InputPipe may be dropped between its calls.
ProgressNext ==
    \/ \E n \in 0..MaxBuf : OutputPipe_write(n)
    \/ OutputPipe_ready_begin
    \/ OutputPipe_ready_send
    \/ OutputPipe_ready_reserve
    \/ OutputPipe_drop
    \/ \E n \in 1..MaxDest : InputPipe_read(n)
    \/ InputPipe_ready_after_empty_read
    \/ InputPipe_ready
    \/ InputPipe_drop

ProgressSpec ==
    /\ LiveInit
    /\ [][ProgressNext]_vars
    /\ WF_vars(OutputPipe_ready_send)
    /\ WF_vars(OutputPipe_ready_reserve)
    /\ WF_vars(\E n \in 1..MaxDest : InputPipe_read(n))
    /\ WF_vars(InputPipe_ready_after_empty_read)
    /\ WF_vars(InputPipe_ready)

\* ==== claims ==============================================================
Written == Bytes(0, nWritten)

IsPrefix(s, t) == Len(s) <= Len(t) /\ s = Take(t, Len(s))

PipeUndisturbed ==
    /\ subject = "pipe"
    /\ ~in_dropped /\ ~out_dropped
    /\ ~out_failed /\ ~out_abandoned

\* C1: while both endpoints of the channel pipe are alive, no call has
\* returned an error and every ready() ran to completion, the bytes returned
\* by InputPipe::read, then the InputPipe buffer, then the queued chunks, then
\* the OutputPipe buffer (or that buffer while a suspended ready() holds it)
\* are exactly the bytes accepted by OutputPipe::write, in order; so the bytes
\* read are a prefix of the bytes written.
C1_Conservation ==
    PipeUndisturbed =>
        /\ in_returned \o in_buffer \o Concat(queue) \o out_bytes \o out_buffer
               = Written
        /\ out_pc = "idle" => out_bytes = <<>>
        /\ IsPrefix(in_returned, Written)

C1_Witness ==
    /\ PipeUndisturbed
    /\ in_returned # <<>> /\ in_buffer # <<>>
    /\ queue # <<>> /\ out_buffer # <<>>

\* C2: when InputPipe::read returns Closed, the InputPipe buffer and the
\* queue are both empty (every byte sent before the drop has been returned).
C2_ClosedNotEarly ==
    (ev.op = "InputPipe.read" /\ ev.st = "Closed") =>
        (in_buffer = <<>> /\ queue = <<>>)

\* C3: once the InputPipe has been dropped, no OutputPipe::write and no
\* OutputPipe::ready returns success, whatever the sender state.
C3_FailsAfterConsumerDrop ==
    (in_dropped /\ ev.op \in {"OutputPipe.write", "OutputPipe.ready"}) =>
        ev.res # "ok"

\* C5 (as stated): every byte accepted by OutputPipe::write is eventually
\* returned by InputPipe::read.
C5_Original ==
    \A k \in 1..MaxBytes : (nWritten >= k) ~> (Len(in_returned) >= k)

\* C5 (amended): every byte accepted by OutputPipe::write is eventually
\* returned by InputPipe::read, unless the OutputPipe is dropped while that
\* byte is still in its pending buffer.
C5_Delivered ==
    \A k \in 1..MaxBytes :
        (nWritten >= k) ~>
            \/ Len(in_returned) >= k
            \/ out_dropped /\ k > nWritten - out_lost

C5_Witness ==
    /\ ev.op = "InputPipe.read"
    /\ ~out_dropped
    /\ out_prev = "ready_ok"
    /\ nWritten >= 2
    /\ in_returned = Written

\* C6: the write that follows a successful OutputPipe::ready returns the
\* length of its argument, appends the whole payload to the queue as one
\* chunk, leaves the pending buffer empty and the sender a plain handle.
C6_WriteAfterReady ==
    [][(out_prev = "ready_ok" /\ ev'.op = "OutputPipe.write") =>
          /\ ev'.res = "ok"
          /\ ev'.cnt = ev'.arg
          /\ queue' = Append(queue, Bytes(nWritten, ev'.arg))
          /\ out_buffer' = <<>>
          /\ out_channel' = "Channel"]_vars

C6_Witness ==
    /\ ev.op = "OutputPipe.write" /\ ev.poll = "permit"
    /\ ev.arg > 0
    /\ Len(queue) = bound /\ bound > 1

\* C8: once a write or ready of the OutputPipe has failed because the
\* consumer is gone, no later OutputPipe::write returns success.
C8_NoSuccessAfterFailure ==
    (ev.op = "OutputPipe.write" /\ ev.res = "ok") => ~out_failed

C8_Witness ==
    /\ out_failed
    /\ ev.op = "OutputPipe.write"
    /\ ev.res \in {"err", "panic"}
    /\ out_prev = "write_err"

\* C4: a WrappedRead::read whose single poll is Pending returns Open and
\* leaves the stored state Open.
C4_PendingKeepsOpen ==
    (ev.op = "WrappedRead.read" /\ ev.poll = "Pending") =>
        (ev.st = "Open" /\ wr_state = "Open")

\* C7: dropping an in-flight ready() leaves the endpoint as it was before the
\* call, apart from what was handed to the transport: the pending buffer
\* holds again the bytes the call had taken and not delivered, and the
\* OutputPipe sender is a plain handle or a held reservation.
C7_AbandonKeepsEndpoint ==
    [][ev'.res = "abandoned" =>
          /\ in_buffer' = in_buffer
          /\ out_buffer' = out_bytes \o out_buffer
          /\ out_channel' \in {"Channel", "Writable"}
          /\ wr_buffer' = wr_bytes \o wr_buffer
          /\ ww_buffer' = ww_bytes \o ww_buffer]_vars

\* C9: once an InputPipe::read (a WrappedRead::read) has returned Closed,
\* every later read of that endpoint returns Closed; and InputPipe::read never
\* returns an error.
C9_ClosedIsFinal ==
    [][/\ (in_closed_reads > 0 /\ ev'.op = "InputPipe.read") =>
              ev'.st = "Closed"
       /\ (wr_closed_reads > 0 /\ ev'.op = "WrappedRead.read") =>
              ev'.st = "Closed"
       /\ ev'.op = "InputPipe.read" => ev'.res = "ok"]_vars

C9_Witness ==
    \/ /\ in_closed_reads = 2 /\ ev.op = "InputPipe.read"
       /\ ev.st = "Closed" /\ ev.poll = "-"
    \/ /\ wr_closed_reads = 2 /\ ev.op = "WrappedRead.read"
       /\ ev.st = "Closed" /\ src_made > src_taken

C11_ClosedOnceAtZeroRead ==
    (ev.op = "WrappedRead.read" /\ ev.st = "Closed") =>
        /\ src_zero
        /\ ev.poll = "Ready"
        /\ wr_closed_reads = 1

\* C12: when InputPipe::ready or WrappedRead::ready returns successfully, the
\* endpoint's pending buffer holds at least one byte or its state is Closed.
C12_ReadyMeansBytesOrClosed ==
    /\ (ev.op = "InputPipe.ready" /\ ev.res = "ok") =>
           (in_buffer # <<>> \/ in_state = "Closed")
    /\ (ev.op = "WrappedRead.ready" /\ ev.res = "ok") =>
           (wr_buffer # <<>> \/ wr_state = "Closed")

\* The scenario of C13: a pipe with bound 1 whose producer has written "AB"
\* (bytes 1, 2) in one call, the chunk still being in the queue ...
ScenarioWritten ==
    /\ subject = "pipe" /\ bound = 1
    /\ nWritten = 2 /\ queue = <<Bytes(0, 2)>>
    /\ in_returned = <<>> /\ in_buffer = <<>>
    /\ ~in_dropped /\ ~out_dropped /\ ~out_abandoned

\* ... and after the consumer's first read into a 1-byte destination.
ScenarioReadOnce ==
    /\ subject = "pipe" /\ bound = 1
    /\ nWritten = 2
    /\ in_returned = <<1>> /\ in_buffer = <<2>>
    /\ ~in_dropped /\ ~out_dropped /\ ~out_abandoned

\* C13 (as stated): in the scenario the ready() that follows write("AB")
\* completes, and the consumer reads after that: while the consumer has not
\* read, the suspended ready() can complete.
C13_Original ==
    (ScenarioWritten /\ out_pc = "reserve") =>
        ENABLED OutputPipe_ready_reserve

\* C13 (amended): in the scenario the ready() that follows write("AB") does
\* not complete while the chunk is in the queue; the consumer's first read
\* into a 1-byte destination returns "A" with state Open and keeps "B", its
\* second returns "B" with state Open.
C13_Scenario ==
    [][/\ ScenarioWritten' => out_prev' # "ready_ok"
       /\ (ScenarioWritten /\ ev'.op = "InputPipe.read" /\ ev'.arg = 1) =>
              /\ ev'.cnt = 1 /\ ev'.st = "Open"
              /\ in_returned' = <<1>> /\ in_buffer' = <<2>>
       /\ (ScenarioReadOnce /\ ev'.op = "InputPipe.read" /\ ev'.arg = 1) =>
              /\ ev'.cnt = 1 /\ ev'.st = "Open"
              /\ in_returned' = <<1, 2>> /\ in_buffer' = <<>>]_vars

C13_Witness ==
    /\ subject = "pipe" /\ bound = 1
    /\ nWritten = 2 /\ in_returned = <<1, 2>>
    /\ ev.op = "InputPipe.read" /\ ev.arg = 1 /\ ev.cnt = 1 /\ ev.st = "Open"
    /\ out_prev = "ready_ok" /\ out_channel = "Writable"
    /\ ~out_dropped

\* the number of send reservations the OutputPipe holds
HeldReservations == IF out_channel = "Writable" THEN 1 ELSE 0

\* C14: the chunks in the queue plus the held reservations never exceed the
\* bound; an OutputPipe::write in the plain-handle state that finds bound
\* chunks queued (the InputPipe being alive) leaves the queue as it is,
\* returns the full length and keeps the bytes in its pending buffer.
C14_Backpressure ==
    /\ [](subject = "pipe" => Len(queue) + HeldReservations <= bound)
    /\ [][(/\ ev'.op = "OutputPipe.write"
           /\ out_channel = "Channel" /\ ~rx_closed
           /\ Len(queue) = bound) =>
              /\ queue' = queue
              /\ ev'.res = "ok" /\ ev'.cnt = ev'.arg
              /\ out_buffer' = out_buffer \o Bytes(nWritten, ev'.arg)]_vars

C14_Witness ==
    /\ bound = 2 /\ Len(queue) = 2
    /\ ev.op = "OutputPipe.write" /\ ev.poll = "Full" /\ ev.arg = 1
    /\ Len(out_buffer) = 2
    /\ ~rx_closed

\* C15: every MemoryOutputPipe::write returns the full length of its
\* argument, the content is the concatenation of the arguments in call order,
\* and ready() can resolve in every state, returns Ok and leaves the content
\* as it is.
C15_MemorySink ==
    /\ [](subject = "mem" =>
            /\ mem_buffer = Bytes(0, mem_written)
            /\ ENABLED MemoryOutputPipe_ready
            /\ ev.op = "MemoryOutputPipe.write" =>
                   (ev.res = "ok" /\ ev.cnt = ev.arg)
            /\ ev.op = "MemoryOutputPipe.ready" => ev.res = "ok")
    /\ [][ev'.op = "MemoryOutputPipe.write" =>
              mem_buffer' = mem_buffer \o Bytes(mem_written, ev'.arg)]_vars
    /\ [][ev'.op = "MemoryOutputPipe.ready" => mem_buffer' = mem_buffer]_vars

\* "a", "b", "c" written one by one, then ready()
C15_Witness ==
    /\ subject = "mem"
    /\ mem_buffer = <<1, 2, 3>>
    /\ ev.op = "MemoryOutputPipe.ready" /\ ev.res = "ok"

\* C16: between completed operations of an OutputPipe (failed ones included,
\* no ready() dropped in flight) the sender state is the plain handle or a
\* held reservation, never missing; it goes from plain handle to reservation
\* only in ready() and from reservation to plain handle only in write().
C16_TwoStateSender ==
    /\ []((/\ subject = "pipe"
           /\ out_pc = "idle" /\ ~out_dropped /\ ~out_abandoned) =>
              out_channel \in {"Channel", "Writable"})
    /\ [][/\ (out_channel' = "Writable" /\ out_channel # "Writable") =>
                 ev'.op = "OutputPipe.ready"
          /\ (out_channel = "Writable" /\ out_channel' = "Channel") =>
                 ev'.op = "OutputPipe.write"]_vars

\* C17: while every WrappedWrite::write and ready has returned success, each
\* write returns the full length of its argument, the bytes the sink has
\* accepted followed by the pending buffer (or the buffer a suspended ready()
\* is writing) are the arguments of all writes in call order, and the pending
\* buffer is empty after a successful ready().
C17_WriteConservation ==
    (subject = "wwrite" /\ ~ww_errored /\ ~ww_abandoned) =>
        /\ ww_sunk \o ww_bytes \o ww_buffer = Bytes(0, ww_accepted)
        /\ ww_pc = "idle" => ww_bytes = <<>>
        /\ ev.op = "WrappedWrite.write" => (ev.res = "ok" /\ ev.cnt = ev.arg)
        /\ (ev.op = "WrappedWrite.ready" /\ ev.res = "ok") => ww_buffer = <<>>

\* a write of which the sink took a part
C17_Witness ==
    /\ subject = "wwrite" /\ ~ww_errored /\ ~ww_abandoned
    /\ ev.op = "WrappedWrite.write" /\ ev.poll = "Ready" /\ ev.arg = 2
    /\ Len(ww_sunk) = 3 /\ ww_buffer = <<4>>

\* C18: an OutputPipe that holds a reservation between operations has an
\* empty pending buffer, every successful write leaves the sender in the
\* plain-handle state, and the send of flush never goes through a reservation.
C18_ReservationMeansFlushed ==
    subject = "pipe" =>
        /\ (out_pc = "idle" /\ out_channel = "Writable") => out_buffer = <<>>
        /\ (ev.op = "OutputPipe.write" /\ ev.res = "ok") =>
               out_channel = "Channel"
        /\ ~(ev.op = "OutputPipe.ready" /\ ev.poll = "permit")

\* a reservation obtained by ready() after bytes were written and received
C18_Witness ==
    /\ subject = "pipe" /\ bound = 1
    /\ out_pc = "idle" /\ out_channel = "Writable" /\ out_buffer = <<>>
    /\ ev.op = "OutputPipe.ready" /\ ev.poll = "reserved"
    /\ nWritten = 2 /\ in_returned \o in_buffer = <<1, 2>>

\* C19: when the sink or the source returns an error to WrappedWrite::write,
\* WrappedWrite::ready, WrappedRead::read or WrappedRead::ready, the
\* endpoint's pending buffer still holds every byte accepted or fetched and
\* not yet delivered: the bytes it held at the call (those ready() had taken
\* and not yet written, for a ready() in flight).
C19_FailedOpKeepsBuffer ==
    [][/\ (ev'.op = "WrappedWrite.write" /\ ev'.res = "err") =>
              IsPrefix(ww_buffer, ww_buffer')
       /\ (ev'.op = "WrappedWrite.ready" /\ ev'.res = "err") =>
              ww_buffer' = ww_bytes
       /\ (ev'.op = "WrappedRead.read" /\ ev'.res = "err") =>
              wr_buffer' = wr_buffer
       /\ (ev'.op = "WrappedRead.ready" /\ ev'.res = "err") =>
              wr_buffer' = wr_bytes]_vars

\* C20: while the consumer keeps receiving, or once it is dropped, every
\* started OutputPipe::ready finishes (returns or fails); and when a ready()
\* of each endpoint is suspended, one of them can go on.
C20_ReadyFinishes ==
    /\ (out_pc # "idle") ~> (out_pc = "idle")
    /\ []((out_pc # "idle" /\ in_pc # "idle") =>
              \/ ENABLED OutputPipe_ready_send
              \/ ENABLED OutputPipe_ready_reserve
              \/ ENABLED InputPipe_ready)

\* a ready() has flushed and obtained a reservation after the consumer
\* received chunks
C20_Witness ==
    /\ subject = "pipe"
    /\ ev.op = "OutputPipe.ready" /\ ev.res = "ok" /\ ev.poll = "reserved"
    /\ out_pc = "idle" /\ out_channel = "Writable"
    /\ Len(queue) = bound - 1 /\ bound = 2
    /\ nWritten = 3 /\ in_returned # <<>>
====
